---- MODULE Spec2Model ----
(***************************************************************************)
(* A model of water_flow_visualization.py: the semi-Lagrangian dye         *)
(* advection loop run_simulation and the array functions it calls.         *)
(*                                                                         *)
(* Numbers.  Python floats are modelled by exact rationals <<n, d>> with   *)
(* d > 0 in lowest terms, so every statement below is one about exact      *)
(* arithmetic; IEEE rounding is not modelled.                              *)
(*                                                                         *)
(* Arrays.  A numpy array of shape (h, w, ...) is a record                 *)
(* [h |-> h, w |-> w, v |-> [y \in 0..h-1 |-> [x \in 0..w-1 |-> cell]]];   *)
(* a cell is a rational (2-D array) or a tuple of rationals, one per       *)
(* channel (3-D array).  A raised exception is a record [exc |-> name].    *)
(*                                                                         *)
(* Transcendental values.  stream_function (sin, cos), the Gaussian        *)
(* weights (exp), the vignette (hypot) and the seeded normal noise are     *)
(* not computable here: their VALUES are drawn from small families, while  *)
(* the SHAPES of every array, the clipping, the indexing, the blending     *)
(* and the casts are computed as the code computes them.                   *)
(***************************************************************************)
EXTENDS Integers, Sequences, FiniteSets, TLC

(* ------------------------------ bounds -------------------------------- *)

\* Largest resolution a run is started with (resolutions are -1..MaxResolution).
MaxResolution == 7

\* Largest step count a run is started with (steps are -1..MaxSteps).
MaxSteps == 2

\* Largest side of the fields the pure functions are applied to on their own.
MaxSide == 3

(* --------------------------- exact rationals -------------------------- *)

Abs(n) == IF n < 0 THEN -n ELSE n

RECURSIVE Gcd(_, _)
Gcd(a, b) == IF b = 0 THEN a ELSE Gcd(b, a % b)

\* n/d in lowest terms, d > 0.
Rat(n, d) ==
    LET g == Gcd(Abs(n), Abs(d))
        s == IF d < 0 THEN -1 ELSE 1
    IN  <<(s * n) \div g, (s * d) \div g>>

Q(n) == <<n, 1>>

RAdd(p, q) ==
    IF p[2] = q[2] THEN Rat(p[1] + q[1], p[2])
    ELSE LET g == Gcd(p[2], q[2])
         IN  Rat(p[1] * (q[2] \div g) + q[1] * (p[2] \div g), (p[2] \div g) * q[2])

RNeg(p) == <<-p[1], p[2]>>

RSub(p, q) == RAdd(p, RNeg(q))

RMul(p, q) ==
    IF p[1] = 0 \/ q[1] = 0 THEN <<0, 1>>
    ELSE LET a == Rat(p[1], q[2])
             b == Rat(q[1], p[2])
         IN  <<a[1] * b[1], a[2] * b[2]>>

RLe(p, q) == RSub(p, q)[1] <= 0

RLt(p, q) == RSub(p, q)[1] < 0

RAbs(p) == <<Abs(p[1]), p[2]>>

\* np.floor: the largest integer <= p.
RFloor(p) == p[1] \div p[2]

\* Truncation toward zero, what a float -> integer cast does.
RTrunc(p) == IF p[1] >= 0 THEN p[1] \div p[2] ELSE -((-p[1]) \div p[2])

\* np.round / round-half-to-even to the nearest integer.
RRound(p) ==
    LET f == RFloor(p)
        r == RSub(p, Q(f))
    IN  IF RLt(r, <<1, 2>>) THEN f
        ELSE IF RLt(<<1, 2>>, r) THEN f + 1
        ELSE IF f % 2 = 0 THEN f ELSE f + 1

Max(a, b) == IF a >= b THEN a ELSE b

Min(a, b) == IF a <= b THEN a ELSE b

RMax(p, q) == IF RLe(q, p) THEN p ELSE q

RMin(p, q) == IF RLe(p, q) THEN p ELSE q

\* np.clip on one value: minimum(maximum(p, lo), hi).
RClip(p, lo, hi) == RMin(RMax(p, lo), hi)

\* np.clip on one integer.
IClip(n, lo, hi) == Min(Max(n, lo), hi)

(* ------------------------------- arrays ------------------------------- *)

MkArr(h, w, F(_, _)) ==
    [h |-> h, w |-> w, v |-> [y \in 0..(h - 1) |-> [x \in 0..(w - 1) |-> F(y, x)]]]

Raise(name) == [exc |-> name]

IsErr(a) == "exc" \in DOMAIN a

\* numpy broadcasting of two 2-D shapes: each axis equal, or one of them 1.
Broadcastable(a, b) ==
    /\ (a.h = b.h \/ a.h = 1 \/ b.h = 1)
    /\ (a.w = b.w \/ a.w = 1 \/ b.w = 1)

BIdx(n, i) == IF n = 1 THEN 0 ELSE i

\* a (op) b elementwise on 2-D arrays with broadcasting.
Broadcast2(a, b, Op(_, _)) ==
    IF ~Broadcastable(a, b) THEN Raise("ValueError")
    ELSE MkArr(IF a.h = 1 THEN b.h ELSE a.h, IF a.w = 1 THEN b.w ELSE a.w,
               LAMBDA y, x : Op(a.v[BIdx(a.h, y)][BIdx(a.w, x)],
                                b.v[BIdx(b.h, y)][BIdx(b.w, x)]))

(* ------------------------- build_grid (32-35) ------------------------- *)

\* np.linspace(0.0, 1.0, n, endpoint=False)[k] = k * (1/n).
Linspace01(n, k) == Rat(k, n)

\* np.meshgrid(axis, axis, indexing="ij") returns two arrays: in the first,
\* cell [i, j] is axis[i]; in the second, cell [i, j] is axis[j].
build_grid(resolution) ==
    IF resolution < 0 THEN Raise("ValueError")
    ELSE [first  |-> MkArr(resolution, resolution,
                           LAMBDA i, j : Linspace01(resolution, i)),
          second |-> MkArr(resolution, resolution,
                           LAMBDA i, j : Linspace01(resolution, j))]

(* ------------------------ gaussian_blur (62-77) ----------------------- *)

\* The radius taken by rounding 3 * sigma to the nearest integer.
KernelRadiusRounded(sigma) == Max(1, RRound(RMul(sigma, Q(3))))

\* radius = int(max(1, sigma * 3)), sigma a rational.
KernelRadius(sigma) == RTrunc(RMax(Q(1), RMul(sigma, Q(3))))

KernelLength(sigma) == 2 * KernelRadius(sigma) + 1

\* offsets = np.arange(-radius, radius + 1), as a sequence.
KernelOffsets(sigma) ==
    [i \in 1..KernelLength(sigma) |-> i - 1 - KernelRadius(sigma)]

RECURSIVE RPow(_, _)
RPow(q, n) == IF n = 0 THEN Q(1) ELSE RMul(q, RPow(q, n - 1))

RECURSIVE RSum(_)
RSum(seq) == IF seq = <<>> THEN Q(0) ELSE RAdd(seq[1], RSum(Tail(seq)))

\* The values exp(-1 / (2 * sigma**2)) is drawn from: a number in (0, 1).
ExpBases == {<<1, 2>>, <<1, 3>>}

\* 69: weights = np.exp(-(offsets**2) / (2 * sigma**2)), which is
\* e ** (offsets**2) for e = exp(-1 / (2 * sigma**2)).
RawWeights(sigma, e) ==
    [i \in 1..KernelLength(sigma) |->
        RPow(e, KernelOffsets(sigma)[i] * KernelOffsets(sigma)[i])]

\* The reciprocal of a positive rational.
RInv(q) == <<q[2], q[1]>>

\* 70: weights /= weights.sum()
Weights(sigma, e) ==
    LET raw   == RawWeights(sigma, e)
        total == RSum(raw)
    IN  [i \in 1..Len(raw) |-> RMul(raw[i], RInv(total))]

\* len(np.convolve(m, weights, mode="same")) = max(len(m), len(weights)).
ConvolveSameLength(m, k) == Max(m, k)

\* The shape gaussian_blur returns for a field of shape (h, w, ...):
\* np.apply_along_axis replaces the length of the axis by the length of what
\* the 1-D function returns, axis 0 first, then axis 1.
gaussian_blur_shape(h, w, sigma) ==
    IF RLe(sigma, Q(0)) THEN [h |-> h, w |-> w]
    ELSE IF h = 0 \/ w = 0 THEN Raise("ValueError")
    ELSE [h |-> ConvolveSameLength(h, KernelLength(sigma)),
          w |-> ConvolveSameLength(w, KernelLength(sigma))]

(* ----------------------- velocity_field (46-59) ----------------------- *)

\* sigma of the smoothing in velocity_field.
VelocitySigma == Q(1)

\* The families the velocity values are drawn from: blur(gradient(psi)) per
\* unit strength, in pixels per unit time.
VelPatterns == 1..3

VelPattern(k, y, x) ==
    CASE k = 1 -> <<0, 0>>
      [] k = 2 -> <<1, -1>>
      [] OTHER -> <<(y % 2) * 2, -(x % 2)>>

\* np.gradient needs at least edge_order + 1 = 2 samples along the axis.
GradientDefined(n) == n >= 2

velocity_field(resolution, t, strength, k) ==
    IF resolution < 0 THEN Raise("ValueError")
    ELSE IF ~GradientDefined(resolution) THEN Raise("ValueError")
    ELSE LET s == gaussian_blur_shape(resolution, resolution, VelocitySigma)
         IN  IF IsErr(s) THEN s
             ELSE MkArr(s.h, s.w,
                        LAMBDA y, x : <<RMul(strength, Q(VelPattern(k, y, x)[1])),
                                        RMul(strength, Q(VelPattern(k, y, x)[2]))>>)

(* ----------------------- bilinear_sample (80-96) ---------------------- *)

\* 83, 88: x0 = np.clip(np.floor(x).astype(int), 0, w - 1), along an axis of
\* length side.
LowIndex(q, side) == IClip(RFloor(q), 0, side - 1)

\* 83, 85: x1 = np.clip(np.floor(x).astype(int) + 1, 0, w - 1)
HighIndex(q, side) == IClip(RFloor(q) + 1, 0, side - 1)

\* The offset taken from the floor of the coordinate, before any clamping.
FracOffsetFromFloor(q, side) == RSub(q, Q(RFloor(q)))

\* 91-92: fx = x - x0, with the x0 of line 88 (already clamped).
FracOffset(q, side) == RSub(q, Q(LowIndex(q, side)))

\* SampleAt with the neighbour indices taken from the clamped x0, y0.
SampleAtClampFirst(field, x, y) ==
    LET h  == field.h
        w  == field.w
        x0 == IClip(RFloor(x), 0, w - 1)
        y0 == IClip(RFloor(y), 0, h - 1)
        x1 == IClip(x0 + 1, 0, w - 1)
        y1 == IClip(y0 + 1, 0, h - 1)
        fx == RSub(x, Q(x0))
        fy == RSub(y, Q(y0))
        Blend(a, b, f) ==
            [c \in DOMAIN a |-> RAdd(RMul(a[c], RSub(Q(1), f)), RMul(b[c], f))]
        top    == Blend(field.v[y0][x0], field.v[y0][x1], fx)
        bottom == Blend(field.v[y1][x0], field.v[y1][x1], fx)
    IN  Blend(top, bottom, fy)

\* SampleAt with the two blend weights exchanged.
SampleAtSwappedWeights(field, x, y) ==
    LET h  == field.h
        w  == field.w
        x1 == IClip(RFloor(x) + 1, 0, w - 1)
        y1 == IClip(RFloor(y) + 1, 0, h - 1)
        x0 == IClip(RFloor(x), 0, w - 1)
        y0 == IClip(RFloor(y), 0, h - 1)
        fx == RSub(x, Q(x0))
        fy == RSub(y, Q(y0))
        Blend(a, b, f) ==
            [c \in DOMAIN a |-> RAdd(RMul(a[c], f), RMul(b[c], RSub(Q(1), f)))]
        top    == Blend(field.v[y0][x0], field.v[y0][x1], fx)
        bottom == Blend(field.v[y1][x0], field.v[y1][x1], fx)
    IN  Blend(top, bottom, fy)

\* One sample of field at the fractional coordinates (x, y).
SampleAt(field, x, y) ==
    LET h  == field.h
        w  == field.w
        x1 == HighIndex(x, w)
        y1 == HighIndex(y, h)
        x0 == LowIndex(x, w)
        y0 == LowIndex(y, h)
        fx == FracOffset(x, w)
        fy == FracOffset(y, h)
        Blend(a, b, f) ==
            [c \in DOMAIN a |-> RAdd(RMul(a[c], RSub(Q(1), f)), RMul(b[c], f))]
        top    == Blend(field.v[y0][x0], field.v[y0][x1], fx)
        bottom == Blend(field.v[y1][x0], field.v[y1][x1], fx)
    IN  Blend(top, bottom, fy)

\* x and y are 2-D arrays of one shape; the result has their shape and the
\* channels of field.
bilinear_sample(field, x, y) ==
    IF (field.h = 0 \/ field.w = 0) /\ x.h > 0 /\ x.w > 0 THEN Raise("IndexError")
    ELSE MkArr(x.h, x.w, LAMBDA i, j : SampleAt(field, x.v[i][j], y.v[i][j]))

(* --------------------------- advect (99-110) -------------------------- *)

\* np.clip on every element of a 2-D array.
ClipArr(a, lo, hi) == MkArr(a.h, a.w, LAMBDA y, x : RClip(a.v[y][x], lo, hi))

advect(field, velocity, dt) ==
    LET h == field.h
        w == field.w
        y == MkArr(h, w, LAMBDA i, j : Q(i))
        x == MkArr(h, w, LAMBDA i, j : Q(j))
        u == MkArr(velocity.h, velocity.w, LAMBDA i, j : velocity.v[i][j][1])
        v == MkArr(velocity.h, velocity.w, LAMBDA i, j : velocity.v[i][j][2])
        x_back == Broadcast2(x, u, LAMBDA a, b : RSub(a, RMul(dt, b)))
        y_back == Broadcast2(y, v, LAMBDA a, b : RSub(a, RMul(dt, b)))
    IN  IF IsErr(x_back) THEN x_back
        ELSE IF IsErr(y_back) THEN y_back
        ELSE bilinear_sample(field, ClipArr(x_back, Q(0), Q(w - 1)),
                                    ClipArr(y_back, Q(0), Q(h - 1)))

(* --------------------- create_initial_dye (113-127) ------------------- *)

\* base_color = (30, 90, 180).
BaseColor == <<30, 90, 180>>

\* The families the seeded noise and the vignette are drawn from.
DyePatterns == 1..3

Turbulence(p, y, x, c) ==
    CASE p = 1 -> 0
      [] p = 2 -> 40 * ((x + 2 * y + c) % 3) - 40
      [] OTHER -> IF (x + y + c) % 2 = 0 THEN 80 ELSE -40

\* vignette = clip(1 - 0.8 * r, 0.2, 1.0): a factor in [1/5, 1].
Vignette(p, y, x) ==
    CASE p = 2 -> IF (x + y) % 2 = 0 THEN <<1, 2>> ELSE <<1, 5>>
      [] OTHER -> <<1, 1>>

\* create_initial_dye returning dye without the final np.clip.
create_initial_dye_unclipped(resolution, p) ==
    IF resolution < 0 THEN Raise("ValueError")
    ELSE MkArr(resolution, resolution,
               LAMBDA y, x :
                   [c \in 1..3 |->
                       RMul(Q(BaseColor[c] + Turbulence(p, y, x, c)),
                            Vignette(p, y, x))])

create_initial_dye(resolution, p) ==
    IF resolution < 0 THEN Raise("ValueError")
    ELSE MkArr(resolution, resolution,
               LAMBDA y, x :
                   [c \in 1..3 |->
                       RClip(RMul(Q(BaseColor[c] + Turbulence(p, y, x, c)),
                                  Vignette(p, y, x)),
                             Q(0), Q(255))])

(* ----------------- the loop body of run_simulation (151-159) ---------- *)

\* t = step / config.steps * 6.0
StepTime(step, steps) == RMul(Rat(step, steps), Q(6))

\* Dissipate with the weights 0.95 and 0.05 (19/20 and 1/20).
DissipateFaster(dye, base_dye) ==
    MkArr(dye.h, dye.w,
          LAMBDA y, x :
              [c \in DOMAIN dye.v[y][x] |->
                  RAdd(RMul(<<19, 20>>, dye.v[y][x][c]),
                       RMul(<<1, 20>>, base_dye.v[y][x][c]))])

\* dye = 0.995 * dye + 0.005 * base_dye
Dissipate(dye, base_dye) ==
    MkArr(dye.h, dye.w,
          LAMBDA y, x :
              [c \in DOMAIN dye.v[y][x] |->
                  RAdd(RMul(<<199, 200>>, dye.v[y][x][c]),
                       RMul(<<1, 200>>, base_dye.v[y][x][c]))])

\* The cast done by rounding to the nearest integer.
AsUint8Rounded(p) == RRound(p) % 256

\* The float -> uint8 cast of .astype(np.uint8): truncation toward zero
\* (the values it is applied to are already clipped into [0, 255]).
AsUint8(p) == RTrunc(p) % 256

\* frame = np.clip(dye, 0, 255).astype(np.uint8)
MakeFrame(dye) ==
    MkArr(dye.h, dye.w,
          LAMBDA y, x :
              [c \in DOMAIN dye.v[y][x] |->
                  AsUint8(RClip(dye.v[y][x][c], Q(0), Q(255)))])

(* ------------------------------- state -------------------------------- *)

VARIABLES
    config,     \* SimulationConfig after apply_cli_overrides
    pc,         \* the line run_simulation is at; "idle" when no run is on
    exc,        \* the exception that ended the run, "none" otherwise
    heap,       \* the live float arrays, by object identity
    next_id,    \* the identity the next allocated array gets
    base_dye,   \* identity bound to base_dye, 0 when unbound
    dye,        \* identity bound to dye, 0 when unbound
    frames,     \* the list frames
    im,         \* the image the live view shows: <<>> (None) or <<frame>>
    step,       \* the loop variable, -1 before the first iteration
    t,          \* the local t
    vel,        \* the local vel
    psi_args,   \* the x, y that velocity_field handed to stream_function
    hist,       \* history: which buffers each step read and wrote
    call        \* a function applied on its own: its name, inputs and result

vars == <<config, pc, exc, heap, next_id, base_dye, dye, frames, im, step, t,
          vel, psi_args, hist, call>>

runvars == <<config, pc, exc, heap, next_id, base_dye, dye, frames, im, step, t,
             vel, psi_args, hist>>

NoneVal == [none |-> TRUE]

IsNone(a) == "none" \in DOMAIN a

NoCall == [op |-> "none"]

\* The values dt and strength are drawn from in a run.
DtSet == {Q(0), Q(1)}

StrengthSet == {Q(0), Q(1)}

\* The values fps is drawn from (the default is 60).
FpsSet == {0, 60}

Configs ==
    [resolution : (-1)..MaxResolution, steps : (-1)..MaxSteps, dt : DtSet,
     strength : StrengthSet, live_view : BOOLEAN, fps : FpsSet]

NoHist ==
    [base0 |-> NoneVal, copy_id |-> 0, advect_in |-> <<>>, dissip_out |-> <<>>,
     frame_of |-> <<>>]

\* The state main() enters run_simulation in.
Init ==
    /\ config \in Configs
    /\ pc = "create"
    /\ exc = "none"
    /\ heap = <<>>
    /\ next_id = 1
    /\ base_dye = 0
    /\ dye = 0
    /\ frames = <<>>
    /\ im = <<>>
    /\ step = -1
    /\ t = Q(0)
    /\ vel = NoneVal
    /\ psi_args = NoneVal
    /\ hist = NoHist
    /\ call = NoCall

\* An exception leaves run_simulation: its locals are gone with the frame.
RaiseFrom(name) ==
    /\ pc' = "raised"
    /\ exc' = name

\* The arrays still referenced once dye is rebound to a new array.
Rebind(new_id, arr) ==
    [i \in ({base_dye, new_id} \ {0}) |-> IF i = new_id THEN arr ELSE heap[i]]

(* ------------------------ run_simulation (134-171) -------------------- *)

\* 136: base_dye = create_initial_dye(config.resolution)
CreateInitialDye ==
    /\ pc = "create"
    /\ \E p \in DyePatterns :
         LET a == create_initial_dye(config.resolution, p)
         IN  IF IsErr(a)
             THEN /\ RaiseFrom(a.exc)
                  /\ UNCHANGED <<heap, next_id, base_dye, hist>>
             ELSE /\ heap' = (next_id :> a)
                  /\ base_dye' = next_id
                  /\ next_id' = next_id + 1
                  /\ hist' = [hist EXCEPT !.base0 = a]
                  /\ pc' = "copy"
                  /\ exc' = exc
    /\ UNCHANGED <<config, dye, frames, im, step, t, vel, psi_args, call>>

\* 137 without the copy: dye = base_dye
CopyDyeAliased ==
    /\ pc = "copy"
    /\ heap' = heap
    /\ dye' = base_dye
    /\ next_id' = next_id
    /\ frames' = <<>>
    /\ hist' = [hist EXCEPT !.copy_id = base_dye]
    /\ pc' = "live_setup"
    /\ UNCHANGED <<config, exc, base_dye, im, step, t, vel, psi_args, call>>

\* 137-138: dye = base_dye.copy(); frames = []
CopyDye ==
    /\ pc = "copy"
    /\ heap' = heap @@ (next_id :> heap[base_dye])
    /\ dye' = next_id
    /\ next_id' = next_id + 1
    /\ frames' = <<>>
    /\ hist' = [hist EXCEPT !.copy_id = next_id]
    /\ pc' = "live_setup"
    /\ UNCHANGED <<config, exc, base_dye, im, step, t, vel, psi_args, call>>

\* 140-149: pause_time = max(0.0005, 1.0 / config.fps); the live view, if asked for
LiveSetup ==
    /\ pc = "live_setup"
    /\ IF config.fps = 0
       THEN /\ RaiseFrom("ZeroDivisionError")
            /\ im' = im
       ELSE /\ im' = IF config.live_view THEN <<MakeFrame(heap[dye])>> ELSE <<>>
            /\ pc' = "loop"
            /\ exc' = exc
    /\ UNCHANGED <<config, heap, next_id, base_dye, dye, frames, step, t, vel,
                   psi_args, hist, call>>

\* The loop advancing by two.
NextStepSkipping(s) == s + 2

\* The index range(config.steps) yields after step.
NextStep(s) == s + 1

\* 151: for step in range(config.steps)
LoopHead ==
    /\ pc = "loop"
    /\ IF NextStep(step) < config.steps
       THEN /\ step' = NextStep(step)
            /\ pc' = "velocity"
       ELSE /\ step' = step
            /\ pc' = "finish"
    /\ UNCHANGED <<config, exc, heap, next_id, base_dye, dye, frames, im, t, vel,
                   psi_args, hist, call>>

\* 152-153: t = step / config.steps * 6.0; vel = velocity_field(...)
Velocity ==
    /\ pc = "velocity"
    /\ t' = StepTime(step, config.steps)
    /\ LET g == build_grid(config.resolution)
       IN  psi_args' = IF IsErr(g) THEN psi_args ELSE [x |-> g.first, y |-> g.second]
    /\ \E k \in VelPatterns :
         LET a == velocity_field(config.resolution, t', config.strength, k)
         IN  IF IsErr(a)
             THEN /\ RaiseFrom(a.exc)
                  /\ vel' = vel
             ELSE /\ vel' = a
                  /\ pc' = "advect"
                  /\ exc' = exc
    /\ UNCHANGED <<config, heap, next_id, base_dye, dye, frames, im, step, hist,
                   call>>

\* 154: dye = advect(dye, vel, config.dt)
Advect ==
    /\ pc = "advect"
    /\ LET a == advect(heap[dye], vel, config.dt)
       IN  IF IsErr(a)
           THEN /\ RaiseFrom(a.exc)
                /\ UNCHANGED <<heap, next_id, dye, hist>>
           ELSE /\ heap' = Rebind(next_id, a)
                /\ dye' = next_id
                /\ next_id' = next_id + 1
                /\ hist' = [hist EXCEPT !.advect_in = Append(@, [step |-> step, id |-> dye])]
                /\ pc' = "dissipate"
                /\ exc' = exc
    /\ UNCHANGED <<config, base_dye, frames, im, step, t, vel, psi_args, call>>

\* 157: dye = 0.995 * dye + 0.005 * base_dye
Dissipation ==
    /\ pc = "dissipate"
    /\ heap' = Rebind(next_id, Dissipate(heap[dye], heap[base_dye]))
    /\ dye' = next_id
    /\ next_id' = next_id + 1
    /\ hist' = [hist EXCEPT !.dissip_out = Append(@, [step |-> step, id |-> next_id])]
    /\ pc' = "frame"
    /\ UNCHANGED <<config, exc, base_dye, frames, im, step, t, vel, psi_args, call>>

\* 158-159: frame = np.clip(dye, 0, 255).astype(np.uint8); frames.append(frame)
EmitFrame ==
    /\ pc = "frame"
    /\ frames' = Append(frames, MakeFrame(heap[dye]))
    /\ hist' = [hist EXCEPT !.frame_of = Append(@, [step |-> step, id |-> dye])]
    /\ pc' = "live_update"
    /\ UNCHANGED <<config, exc, heap, next_id, base_dye, dye, im, step, t, vel,
                   psi_args, call>>

\* 161-165: if config.live_view and im is not None: im.set_data(frame); ...
LiveUpdate ==
    /\ pc = "live_update"
    /\ im' = IF config.live_view /\ im # <<>> THEN <<frames[Len(frames)]>> ELSE im
    /\ pc' = "loop"
    /\ UNCHANGED <<config, exc, heap, next_id, base_dye, dye, frames, step, t, vel,
                   psi_args, hist, call>>

\* 167-171: if config.live_view: plt.ioff(); plt.show(); return frames
Finish ==
    /\ pc = "finish"
    /\ pc' = "done"
    /\ UNCHANGED <<config, exc, heap, next_id, base_dye, dye, frames, im, step, t,
                   vel, psi_args, hist, call>>

Next ==
    \/ CreateInitialDye
    \/ CopyDye
    \/ LiveSetup
    \/ LoopHead
    \/ Velocity
    \/ Advect
    \/ Dissipation
    \/ EmitFrame
    \/ LiveUpdate
    \/ Finish

Spec == Init /\ [][Next]_vars

(* ------------- the array functions applied on their own --------------- *)

\* The fields the functions are applied to: h x w cells of n channels.
FnField(h, w, n, f) ==
    MkArr(h, w,
          LAMBDA y, x :
              [c \in 1..n |->
                  IF f = 1 THEN Q(10 * y + 3 * x * x + c)
                  ELSE Q(((7 * x + 13 * y * y + 5 * c) % 11) * 23)])

FnFields ==
    {FnField(h, w, n, f) : h \in 1..MaxSide, w \in 1..MaxSide, n \in 2..3, f \in 1..2}

\* Sample coordinates along an axis of length side: far outside on both
\* sides, and every half pixel from -3/2 to side + 1/2.
FnCoords(side) ==
    {Q(-5), Q(side + 5)} \cup {Rat(k, 2) : k \in (-3)..(2 * side + 1)}

\* The sigmas gaussian_blur is applied with.
FnSigmas ==
    {Q(-1), Q(0), <<1, 10>>, <<1, 3>>, <<1, 2>>, <<3, 5>>, Q(1), <<7, 6>>, <<3, 2>>}

FnDts == {Q(0), <<1, 2>>, <<3, 5>>, Q(1)}

FnStrengths == {Q(0), <<1, 2>>, Q(1)}

FnVelocity(h, w, strength, k) ==
    MkArr(h, w,
          LAMBDA y, x : <<RMul(strength, Q(VelPattern(k, y, x)[1])),
                          RMul(strength, Q(VelPattern(k, y, x)[2]))>>)

\* A 1 x 1 coordinate array.
One(q) == MkArr(1, 1, LAMBDA i, j : q)

IsZeroVelocity(velocity) ==
    \A y \in 0..(velocity.h - 1), x \in 0..(velocity.w - 1) :
        velocity.v[y][x] = <<Q(0), Q(0)>>

\* dt * velocity is a whole number of pixels in every cell.
IsWholeDisplacement(velocity, dt) ==
    \A y \in 0..(velocity.h - 1), x \in 0..(velocity.w - 1) :
        /\ RMul(dt, velocity.v[y][x][1])[2] = 1
        /\ RMul(dt, velocity.v[y][x][2])[2] = 1

\* 154-157: one pass of the loop body on the dye buffer.
StepBody(d, base, velocity, dt) == Dissipate(advect(d, velocity, dt), base)

FnInit ==
    /\ config = [resolution |-> 0, steps |-> 0, dt |-> Q(0), strength |-> Q(0),
                 live_view |-> FALSE, fps |-> 60]
    /\ pc = "idle"
    /\ exc = "none"
    /\ heap = <<>>
    /\ next_id = 1
    /\ base_dye = 0
    /\ dye = 0
    /\ frames = <<>>
    /\ im = <<>>
    /\ step = -1
    /\ t = Q(0)
    /\ vel = NoneVal
    /\ psi_args = NoneVal
    /\ hist = NoHist
    /\ call = NoCall

\* bilinear_sample(field, [[x]], [[y]]); x0, x1, fx, y0, y1, fy are its locals
\* when it returns.
CallBilinearSample ==
    /\ call.op = "none"
    /\ \E field \in FnFields :
         \E x \in FnCoords(field.w), y \in FnCoords(field.h) :
            call' = [op |-> "bilinear_sample", field |-> field, x |-> x, y |-> y,
                     x0 |-> LowIndex(x, field.w), x1 |-> HighIndex(x, field.w),
                     y0 |-> LowIndex(y, field.h), y1 |-> HighIndex(y, field.h),
                     fx |-> FracOffset(x, field.w), fy |-> FracOffset(y, field.h),
                     out |-> bilinear_sample(field, One(x), One(y))]
    /\ UNCHANGED runvars

\* advect(field, velocity, dt)
CallAdvect ==
    /\ call.op = "none"
    /\ \E field \in FnFields, s \in FnStrengths, k \in VelPatterns, dt \in FnDts :
         LET velocity == FnVelocity(field.h, field.w, s, k)
         IN  call' = [op |-> "advect", field |-> field, velocity |-> velocity,
                      dt |-> dt, out |-> advect(field, velocity, dt)]
    /\ UNCHANGED runvars

\* The loop body applied to a dye buffer that differs from base_dye.
CallStep ==
    /\ call.op = "none"
    /\ \E d \in FnFields, f \in 1..2, s \in FnStrengths, k \in VelPatterns,
          dt \in FnDts :
         LET base     == FnField(d.h, d.w, Len(d.v[0][0]), f)
             velocity == FnVelocity(d.h, d.w, s, k)
         IN  call' = [op |-> "step", n |-> 1, dye |-> d, base_dye |-> base,
                      velocity |-> velocity, dt |-> dt,
                      out |-> StepBody(d, base, velocity, dt)]
    /\ UNCHANGED runvars

\* The loop body applied again to its own result, the velocity held.
ContinueStep ==
    /\ call.op = "step"
    /\ call.n < MaxSteps
    /\ IsWholeDisplacement(call.velocity, call.dt)
    /\ call' = [call EXCEPT !.n = @ + 1, !.dye = call.out,
                            !.out = StepBody(call.out, call.base_dye,
                                             call.velocity, call.dt)]
    /\ UNCHANGED runvars

\* gaussian_blur(field, sigma) on a field of shape h x w: radius and weights
\* are its locals (not bound when sigma <= 0 returns the field at once), shape
\* is the shape of what it returns.
CallGaussianBlur ==
    /\ call.op = "none"
    /\ \E h \in 1..MaxSide, w \in 1..MaxSide, sigma \in FnSigmas, e \in ExpBases :
         call' = IF RLe(sigma, Q(0))
                 THEN [op |-> "gaussian_blur", h |-> h, w |-> w, sigma |-> sigma,
                       radius |-> 0, weights |-> <<>>,
                       shape |-> gaussian_blur_shape(h, w, sigma)]
                 ELSE [op |-> "gaussian_blur", h |-> h, w |-> w, sigma |-> sigma,
                       radius |-> KernelRadius(sigma),
                       weights |-> Weights(sigma, e),
                       shape |-> gaussian_blur_shape(h, w, sigma)]
    /\ UNCHANGED runvars

FnNext ==
    \/ CallBilinearSample
    \/ CallAdvect
    \/ CallGaussianBlur
    \/ CallStep
    \/ ContinueStep

SpecFn == FnInit /\ [][FnNext]_vars

(* ----------------------------- properties ------------------------------ *)

FrameWellFormed(f, n) ==
    /\ f.h = n
    /\ f.w = n
    /\ \A y \in 0..(n - 1), x \in 0..(n - 1) :
         /\ Len(f.v[y][x]) = 3
         /\ \A c \in 1..3 : f.v[y][x][c] \in 0..255

\* C1 (as claimed): a run with resolution > 0 and steps > 0 (and a frame rate
\* that is not 0) never ends in an exception, and when it returns it returns
\* exactly `steps` frames, each resolution x resolution x 3 with every value
\* in 0..255.
C1_RunReturnsStepsFrames ==
    (config.resolution > 0 /\ config.steps > 0 /\ config.fps # 0) =>
        /\ pc # "raised"
        /\ pc = "done" =>
             /\ Len(frames) = config.steps
             /\ \A k \in 1..Len(frames) : FrameWellFormed(frames[k], config.resolution)

\* C2 (as claimed): a run with resolution <= 0 or steps <= 0 never returns
\* normally, produces no frame, and if it raises it raises before the step
\* loop has started.
C2_NonPositiveConfigFailsFast ==
    (pc # "idle" /\ (config.resolution <= 0 \/ config.steps <= 0)) =>
        /\ pc # "done"
        /\ frames = <<>>
        /\ pc = "raised" => step = -1

\* C3: the steps run in index order 0, 1, ... with none skipped or repeated;
\* the advection of step 0 reads the copy of base_dye, the advection of step
\* i+1 reads the buffer the dissipation of step i wrote, and the k-th frame
\* of the list is the one made in step k from the buffer that step wrote.
C3_StepsInOrder ==
    /\ \A i \in 1..Len(hist.advect_in) :
         /\ hist.advect_in[i].step = i - 1
         /\ hist.advect_in[i].id =
              IF i = 1 THEN hist.copy_id ELSE hist.dissip_out[i - 1].id
    /\ \A i \in 1..Len(hist.dissip_out) : hist.dissip_out[i].step = i - 1
    /\ Len(hist.frame_of) = Len(frames)
    /\ \A k \in 1..Len(frames) :
         /\ hist.frame_of[k].step = k - 1
         /\ hist.frame_of[k].id = hist.dissip_out[k].id
    /\ (dye # 0 /\ hist.advect_in = <<>>) =>
         (dye = hist.copy_id /\ heap[dye] = hist.base0)
    /\ pc = "done" => Len(frames) = Max(config.steps, 0)

\* C3 witness: a run has returned after at least two steps, so a step has
\* read the buffer its predecessor wrote.
C3_Witness ==
    /\ pc = "done"
    /\ Len(frames) >= 2
    /\ Len(hist.advect_in) >= 2

\* C4: once base_dye is bound, the array it names holds what
\* create_initial_dye returned, at every line of the run, and dye never
\* names the same array as base_dye.
C4_BaseDyeFrozen ==
    base_dye # 0 =>
        /\ heap[base_dye] = hist.base0
        /\ dye # 0 => dye # base_dye

\* C4 witness: after a later step's frame the working buffer has moved away
\* from the base field, which is still what it was.
C4_Witness ==
    /\ pc = "live_update"
    /\ step >= 1
    /\ heap[dye] # heap[base_dye]
    /\ heap[base_dye] = hist.base0

\* Linear interpolation written from the difference a + (b - a) * f.
Lerp(a, b, f) == [c \in DOMAIN a |-> RAdd(a[c], RMul(RSub(b[c], a[c]), f))]

\* The bilinear interpolant of field at a position inside the field.
InRangeInterp(field, x, y) ==
    LET x0 == RFloor(x)
        y0 == RFloor(y)
        x1 == Min(x0 + 1, field.w - 1)
        y1 == Min(y0 + 1, field.h - 1)
        fx == RSub(x, Q(x0))
        fy == RSub(y, Q(y0))
    IN  Lerp(Lerp(field.v[y0][x0], field.v[y0][x1], fx),
             Lerp(field.v[y1][x0], field.v[y1][x1], fx), fy)

OutOfRange(q, side) == RLt(q, Q(0)) \/ RLt(Q(side - 1), q)

\* C5: bilinear_sample at a coordinate outside the field returns the value at
\* the nearest edge position: with both coordinates outside it is the corner
\* cell (so (-5,-5) gives field[0,0] and (W+5,H+5) gives field[H-1,W-1]),
\* and with one outside it is the interpolant at the clamped position.
C5_SampleClampsToEdge ==
    call.op = "bilinear_sample" =>
        LET f  == call.field
            cx == RClip(call.x, Q(0), Q(f.w - 1))
            cy == RClip(call.y, Q(0), Q(f.h - 1))
            out == call.out.v[0][0]
        IN  /\ (OutOfRange(call.x, f.w) /\ OutOfRange(call.y, f.h)) =>
                 out = f.v[cy[1]][cx[1]]
            /\ (OutOfRange(call.x, f.w) \/ OutOfRange(call.y, f.h)) =>
                 out = InRangeInterp(f, cx, cy)

\* C5 witness: a field at least 2 x 2 was sampled at (-5, -5), and its
\* corner cell differs from the neighbours.
C5_Witness ==
    /\ call.op = "bilinear_sample"
    /\ call.x = Q(-5)
    /\ call.y = Q(-5)
    /\ call.field.h >= 2
    /\ call.field.w >= 2
    /\ call.field.v[0][0] # call.field.v[0][1]
    /\ call.field.v[0][0] # call.field.v[1][0]
    /\ call.out.v[0][0] = call.field.v[0][0]

IsWhole(q) == q[2] = 1

\* C6: advect with an all-zero velocity returns its input, whatever dt is,
\* and bilinear_sample at an in-range integer coordinate (x, y) returns
\* exactly field[y, x].
C6_ZeroVelocityIsIdentity ==
    /\ (call.op = "advect" /\ IsZeroVelocity(call.velocity)) =>
           call.out = call.field
    /\ (/\ call.op = "bilinear_sample"
        /\ IsWhole(call.x) /\ ~OutOfRange(call.x, call.field.w)
        /\ IsWhole(call.y) /\ ~OutOfRange(call.y, call.field.h)) =>
           call.out.v[0][0] = call.field.v[call.y[1]][call.x[1]]

\* C6 witness: advect ran with zero velocity and a fractional dt on a field
\* whose cells differ.
C6_Witness ==
    /\ call.op = "advect"
    /\ IsZeroVelocity(call.velocity)
    /\ call.dt = <<3, 5>>
    /\ call.field.h >= 2
    /\ call.field.w >= 2
    /\ call.field.v[0][0] # call.field.v[1][1]
    /\ call.out = call.field

\* C7: with zero velocity one pass of the loop body takes the residual
\* dye - base_dye to exactly 0.995 times itself in every cell and channel,
\* so its magnitude does not grow.
C7_ResidualShrinks ==
    (call.op = "step" /\ IsZeroVelocity(call.velocity)) =>
        /\ call.out.h = call.dye.h
        /\ call.out.w = call.dye.w
        /\ \A y \in 0..(call.dye.h - 1), x \in 0..(call.dye.w - 1) :
             \A c \in DOMAIN call.dye.v[y][x] :
                LET before == RSub(call.dye.v[y][x][c], call.base_dye.v[y][x][c])
                    after  == RSub(call.out.v[y][x][c], call.base_dye.v[y][x][c])
                IN  /\ after = RMul(<<199, 200>>, before)
                    /\ RLe(RAbs(after), RAbs(before))

\* C7 witness: the second pass in a row with zero velocity, on a buffer that
\* still differs from base_dye.
C7_Witness ==
    /\ call.op = "step"
    /\ call.n >= 2
    /\ IsZeroVelocity(call.velocity)
    /\ call.dye # call.base_dye
    /\ call.out # call.base_dye

\* C8 (as claimed): the arrays velocity_field hands to stream_function are
\* x[i, j] = j / N and y[i, j] = i / N.
C8_GridXAlongColumns ==
    ~IsNone(psi_args) =>
        \A i \in 0..(config.resolution - 1), j \in 0..(config.resolution - 1) :
            /\ psi_args.x.v[i][j] = Rat(j, config.resolution)
            /\ psi_args.y.v[i][j] = Rat(i, config.resolution)

\* C9 (as claimed): each value of an emitted frame is the dye value clamped
\* to [0, 255] and rounded to the nearest integer.
C9_FrameIsRoundedClamp ==
    pc = "live_update" =>
        LET f == frames[Len(frames)]
            d == heap[dye]
        IN  \A y \in 0..(d.h - 1), x \in 0..(d.w - 1) : \A c \in 1..3 :
                f.v[y][x][c] = RRound(RClip(d.v[y][x][c], Q(0), Q(255)))

\* C9 (amended): each value of an emitted frame is the dye value clamped to
\* [0, 255] and truncated to the integer below it (254.7 is emitted as 254).
C9_FrameIsTruncatedClamp ==
    pc = "live_update" =>
        LET f == frames[Len(frames)]
            d == heap[dye]
        IN  /\ f.h = d.h
            /\ f.w = d.w
            /\ \A y \in 0..(d.h - 1), x \in 0..(d.w - 1) : \A c \in 1..3 :
                 f.v[y][x][c] = RFloor(RClip(d.v[y][x][c], Q(0), Q(255)))

\* C9 witness: a frame was emitted from a buffer holding a value whose
\* fractional part is at least one half, where rounding and truncation differ.
C9_Witness ==
    /\ pc = "live_update"
    /\ \E y \in 0..(heap[dye].h - 1), x \in 0..(heap[dye].w - 1) : \E c \in 1..3 :
         LET q == RClip(heap[dye].v[y][x][c], Q(0), Q(255))
         IN  /\ RLe(<<1, 2>>, RSub(q, Q(RFloor(q))))
             /\ frames[Len(frames)].v[y][x][c] = RFloor(q)

\* C10 (as claimed): the smoothed velocity field has the shape
\* resolution x resolution x 2 for every resolution the smoothing is reached
\* with, smaller than the kernel or not.
C10_BlurKeepsShape ==
    ~IsNone(vel) =>
        /\ vel.h = config.resolution
        /\ vel.w = config.resolution

InUnit(q) == RLe(Q(0), q) /\ RLt(q, Q(1))

\* C11 (as claimed): for every input coordinate the blend weights fx and fy
\* lie in [0, 1), and each is 0 when its coordinate is outside the field.
C11_OffsetsInUnitInterval ==
    call.op = "bilinear_sample" =>
        /\ InUnit(call.fx)
        /\ InUnit(call.fy)
        /\ OutOfRange(call.x, call.field.w) => call.fx = Q(0)
        /\ OutOfRange(call.y, call.field.h) => call.fy = Q(0)

\* C11 (amended): fx and fy are the coordinate minus the clamped lower
\* index.  For a coordinate inside the field they lie in [0, 1).  For a
\* coordinate outside the field the offset is the signed distance to the
\* nearest edge index, which is not 0 (and negative below the field), while
\* both neighbour indices are that edge index, so the offset weighs one
\* cell against itself.
C11_OffsetsFromClampedIndex ==
    call.op = "bilinear_sample" =>
        LET f == call.field
            EdgeX == RClip(call.x, Q(0), Q(f.w - 1))
            EdgeY == RClip(call.y, Q(0), Q(f.h - 1))
        IN  /\ ~OutOfRange(call.x, f.w) => InUnit(call.fx)
            /\ ~OutOfRange(call.y, f.h) => InUnit(call.fy)
            /\ OutOfRange(call.x, f.w) =>
                 /\ call.fx = RSub(call.x, EdgeX)
                 /\ call.fx # Q(0)
                 /\ call.x0 = EdgeX[1] /\ call.x1 = EdgeX[1]
            /\ OutOfRange(call.y, f.h) =>
                 /\ call.fy = RSub(call.y, EdgeY)
                 /\ call.fy # Q(0)
                 /\ call.y0 = EdgeY[1] /\ call.y1 = EdgeY[1]

\* C11 witness: a field at least 2 x 2 was sampled at x = -5 with y inside
\* the field and fractional; fx is -5 and fy is in (0, 1).
C11_Witness ==
    /\ call.op = "bilinear_sample"
    /\ call.field.w >= 2
    /\ call.field.h >= 2
    /\ call.x = Q(-5)
    /\ call.fx = Q(-5)
    /\ call.y = <<1, 2>>
    /\ call.fy = <<1, 2>>

KernelSymmetric(w) == \A i \in 1..Len(w) : w[i] = w[Len(w) + 1 - i]

\* C12 (as claimed): for sigma > 0 the kernel has half-width
\* max(1, round(3 * sigma)), length 2 * half-width + 1, is symmetric and its
\* weights sum to 1.
C12_KernelRadiusRounded ==
    (call.op = "gaussian_blur" /\ RLt(Q(0), call.sigma)) =>
        /\ call.radius = Max(1, RRound(RMul(Q(3), call.sigma)))
        /\ Len(call.weights) = 2 * call.radius + 1
        /\ KernelSymmetric(call.weights)
        /\ RSum(call.weights) = Q(1)

\* C12 (amended): for sigma > 0 the kernel has half-width
\* floor(max(1, 3 * sigma)) (3 * sigma = 1.8 gives 1), length
\* 2 * half-width + 1, is symmetric, has positive weights, and they sum to 1.
C12_KernelRadiusTruncated ==
    (call.op = "gaussian_blur" /\ RLt(Q(0), call.sigma)) =>
        LET m == RMax(Q(1), RMul(Q(3), call.sigma))
        IN  /\ RLe(Q(call.radius), m)
            /\ RLt(m, Q(call.radius + 1))
            /\ Len(call.weights) = 2 * call.radius + 1
            /\ KernelSymmetric(call.weights)
            /\ \A i \in 1..Len(call.weights) : RLt(Q(0), call.weights[i])
            /\ RSum(call.weights) = Q(1)

\* C12 witness: gaussian_blur ran with sigma = 0.6, where 3 * sigma = 1.8
\* rounds to 2 and truncates to 1, and built a kernel of 3 unequal weights.
C12_Witness ==
    /\ call.op = "gaussian_blur"
    /\ call.sigma = <<3, 5>>
    /\ call.radius = 1
    /\ Len(call.weights) = 3
    /\ call.weights[1] # call.weights[2]

\* Every value of a 3-D array lies in [0, 255].
InByteRange(a) ==
    \A y \in 0..(a.h - 1), x \in 0..(a.w - 1) : \A c \in DOMAIN a.v[y][x] :
        /\ RLe(Q(0), a.v[y][x][c])
        /\ RLe(a.v[y][x][c], Q(255))

C13_StepKeepsRange ==
    (call.op = "step" /\ InByteRange(call.dye) /\ InByteRange(call.base_dye)) =>
        InByteRange(call.out)

\* A pass with a fractional displacement ran on fields in range and blended
\* unequal cells.
C13_StepWitness ==
    /\ call.op = "step"
    /\ InByteRange(call.dye)
    /\ InByteRange(call.base_dye)
    /\ ~IsWholeDisplacement(call.velocity, call.dt)
    /\ call.dye.h >= 2
    /\ call.dye.w >= 2
    /\ call.out # call.dye

====
